---- MODULE Spec2Model ----
(***************************************************************************)
(* Model of jelib's graph-search strategies                                *)
(* (src/src/jelib/pathfind/search_algorithms.py) and of the expansion      *)
(* events they hand to the tracer's report callback                        *)
(* (src/src/jelib/trace/graph_tracer.py).                                  *)
(*                                                                         *)
(* Nodes are the integers 1..n (their order is the node total order); the  *)
(* graph is an undirected networkx-style graph given by the neighbour      *)
(* enumeration order of every node (nbrs) and the optional "weight"        *)
(* attribute of every edge (wt).  One action models one iteration of a     *)
(* strategy's loop, the loop test and every report included.               *)
(***************************************************************************)
EXTENDS Integers, Sequences, FiniteSets, TLC

VARIABLES
    alg,            \* the strategy being run
    nbrs,           \* nbrs[n]: graph.neighbors(n), in enumeration order
    wt,             \* wt[{a,b}]: the "weight" attribute of edge a-b, or NoWeight
    heur,           \* heur[n]: heuristic(n)
    start, goal,    \* the arguments of the call
    pc,             \* "loop", "fwd", "bwd" (bidirectional turn), "done"
                    \* (returned) or "raised" (left by an exception)
    frontier,       \* stack / queue / heap of the single-frontier strategies
    visited,        \* visited set (dfs, bfs, ucs, greedy_search)
    visited_g,      \* a_star's visited dict: node -> g
    frontier_start, frontier_goal,  \* bidirectional_search's two deques
    visited_start, visited_goal,    \* bidirectional_search's dicts: node -> path
    meet,           \* the side whose expansion detected the meeting, or "none"
    depth,          \* iterative_deepening_dfs's depth limit
    events,         \* the report calls of the current trace() call, in order
    result,         \* the returned path; None (no path) is <<>>
    expansion_order,  \* GraphTracer.expansion_order
    traces          \* the trace() calls made on the tracer so far

vars == <<alg, nbrs, wt, heur, start, goal, pc, frontier, visited, visited_g,
          frontier_start, frontier_goal, visited_start, visited_goal, meet,
          depth, events, result, expansion_order, traces>>

inputs == <<alg, nbrs, wt, heur, start, goal>>

----------------------------------------------------------------------------
(* Bounds of the model.                                                    *)

\* every graph on the nodes 1..NumNodes is an input
NumNodes == 4
\* the rings (cycle graphs) of MaxRing - 1 and of MaxRing nodes are inputs
\* of the order-driven strategies
MaxRing == 7
\* the non-default value an edge's "weight" attribute or a heuristic takes
BigCost == 5

\* Python's None where a number is expected (g_cost, h_cost, a frontier cost)
None == -1
\* an edge without "weight" attribute
NoWeight == -1
\* Python's None where a path is expected
NoPath == << >>

----------------------------------------------------------------------------
(* Sequences, Python lists and tuples.                                     *)

Range(s) == {s[i] : i \in DOMAIN s}

Last(s) == s[Len(s)]

\* list[:-1]
Front(s) == SubSeq(s, 1, Len(s) - 1)

Reverse(s) == [i \in 1..Len(s) |-> s[Len(s) + 1 - i]]

\* Python's list < list: lexicographic, a proper prefix is smaller
RECURSIVE ListLess(_, _)
ListLess(p, q) ==
    IF q = << >> THEN FALSE
    ELSE IF p = << >> THEN TRUE
    ELSE IF Head(p) # Head(q) THEN Head(p) < Head(q)
    ELSE ListLess(Tail(p), Tail(q))

\* EntryLess on the priority key alone: entries of equal key are not ordered
EntryLess_KeyOnly(a, b) == Head(a) < Head(b)

\* Python's tuple < tuple for a frontier entry of a heap: numbers (the
\* priority key, the node) followed by the path, a list
RECURSIVE EntryLess(_, _)
EntryLess(a, b) ==
    IF Len(a) = 1 THEN ListLess(a[1], b[1])
    ELSE IF Head(a) # Head(b) THEN Head(a) < Head(b)
    ELSE EntryLess(Tail(a), Tail(b))

\* Python's tuple < tuple for the (node, cost) pairs of a frontier snapshot
PairLess(a, b) == a[1] < b[1] \/ (a[1] = b[1] /\ a[2] < b[2])

\* the comparison sorted() makes: of the cost alone with key=lambda x: x[1],
\* of the whole pair without key
SortLess(a, b, byCost) == IF byCost THEN a[2] < b[2] ELSE PairLess(a, b)

\* x put into the sorted list s behind every element that is not greater
RECURSIVE InsertSorted(_, _, _)
InsertSorted(s, x, byCost) ==
    IF s = << >> THEN <<x>>
    ELSE IF SortLess(x, Head(s), byCost) THEN <<x>> \o s
    ELSE <<Head(s)>> \o InsertSorted(Tail(s), x, byCost)

\* sorted(s) and sorted(s, key=lambda x: x[1]): a stable sort
RECURSIVE Sorted(_, _)
Sorted(s, byCost) ==
    IF s = << >> THEN << >>
    ELSE InsertSorted(Sorted(Front(s), byCost), Last(s), byCost)

\* F(v), with v evaluated once
Bind(v, F(_)) == CHOOSE y \in {F(x) : x \in {v}} : TRUE

\* [f(x) for x in s if keep(x)] is Comprehend(SelectSeq(s, keep), f)
Comprehend(s, f(_)) == [i \in 1..Len(s) |-> f(s[i])]

----------------------------------------------------------------------------
(* heapq on a list of frontier entries (positions are 0-based as in        *)
(* CPython's heapq; the list's element at position p is h[p + 1]).         *)

RECURSIVE SiftDown(_, _, _, _)
SiftDown(h, startpos, pos, newitem) ==
    IF pos > startpos /\ EntryLess(newitem, h[((pos - 1) \div 2) + 1])
    THEN SiftDown([h EXCEPT ![pos + 1] = h[((pos - 1) \div 2) + 1]],
                  startpos, (pos - 1) \div 2, newitem)
    ELSE [h EXCEPT ![pos + 1] = newitem]

RECURSIVE SiftUpFrom(_, _, _, _)
SiftUpFrom(h, startpos, pos, newitem) ==
    LET endpos == Len(h)
        childpos == 2 * pos + 1
        rightpos == childpos + 1
        c == IF rightpos < endpos /\ ~EntryLess(h[childpos + 1], h[rightpos + 1])
             THEN rightpos ELSE childpos
    IN  IF childpos < endpos
        THEN SiftUpFrom([h EXCEPT ![pos + 1] = h[c + 1]], startpos, c, newitem)
        ELSE SiftDown([h EXCEPT ![pos + 1] = newitem], startpos, pos, newitem)

\* heapq.heappush(h, item): the list afterwards
heappush(h, item) == SiftDown(Append(h, item), 0, Len(h), item)

\* heapq.heappop(h): the item returned ...
heappop_item(h) == h[1]

\* ... and the list afterwards
heappop_rest(h) ==
    IF Len(h) = 1 THEN << >>
    ELSE SiftUpFrom([Front(h) EXCEPT ![1] = Last(h)], 0, 0, Last(h))

\* the heap after pushing the entries of the list items one by one
RECURSIVE PushAll(_, _)
PushAll(h, items) ==
    IF items = << >> THEN h
    ELSE PushAll(heappush(h, Head(items)), Tail(items))

----------------------------------------------------------------------------
(* The graph access interface and the report callback.                     *)

\* graph[a][b].get("weight", 1)
EdgeWeight(a, b) == IF wt[{a, b}] = NoWeight THEN 1 ELSE wt[{a, b}]

\* n is a node of the graph; graph.neighbors(n) raises (networkx's
\* NetworkXError) when it is not
HasNode(n) == n \in DOMAIN nbrs

\* the keyword arguments of one report(...) call
Event(node, g, h, path, snapshot) ==
    [expanded_node |-> node, g_cost |-> g, h_cost |-> h, path |-> path,
     frontier |-> snapshot]

\* GraphTracer._report, called once for every event of the step:
\* self.expansion_order.append(expanded_node)
Reported ==
    expansion_order' = expansion_order \o
        [i \in 1..(Len(events') - Len(events)) |->
            events'[Len(events) + i].expanded_node]

\* sorted([(n, None) for n, _ in entries if n not in vis]): the frontier
\* snapshot dfs, bfs and bidirectional_search report
SnapshotNone(entries, vis) ==
    LET keep(e) == e[1] \notin vis
        pair(e) == <<e[1], None>>
    IN  Sorted(Comprehend(SelectSeq(entries, keep), pair), FALSE)

\* sorted([(n, c) for c, n, _ in heap if n not in vis], ...): the frontier
\* snapshot ucs and greedy_search report
SnapshotCost(heap, vis, byCost) ==
    LET keep(e) == e[2] \notin vis
        pair(e) == <<e[2], e[1]>>
    IN  Sorted(Comprehend(SelectSeq(heap, keep), pair), byCost)

\* sorted([(n, g_ + heuristic(n)) for f_, g_, n, _ in heap if n not in
\* visited], key=lambda x: x[1]): the frontier snapshot a_star reports
SnapshotAStar(heap, visdict) ==
    LET keep(e) == e[3] \notin DOMAIN visdict
        pair(e) == <<e[3], e[2] + heur[e[3]]>>
    IN  Sorted(Comprehend(SelectSeq(heap, keep), pair), TRUE)

\* AlreadyVisited with the test left out: no popped entry is skipped
AlreadyVisited_NeverSkips(vis, current) == FALSE

\* "if current in visited: continue": the popped entry is skipped
AlreadyVisited(vis, current) == current \in vis

\* MarkVisited with the visited.add(current) left out
MarkVisited_Forgets(vis, current) == vis

\* the visited set after visited.add(current)
MarkVisited(vis, current) == vis \cup {current}

----------------------------------------------------------------------------
(* dfs                                                                     *)

\* DfsPush with the entries pushed carrying the parent's path unextended
DfsPush_PathNotExtended(stack, current, path, vis) ==
    LET frontier_nodes == {e[1] : e \in Range(stack)}
        fresh(n) == n \notin vis /\ n \notin frontier_nodes
        entry(n) == <<n, path>>
    IN  stack \o Comprehend(SelectSeq(Reverse(nbrs[current]), fresh), entry)

\* DfsPush with the frontier test inverted: "neighbor in frontier_nodes"
DfsPush_InvertedTest(stack, current, path, vis) ==
    LET frontier_nodes == {e[1] : e \in Range(stack)}
        fresh(n) == n \notin vis /\ n \in frontier_nodes
        entry(n) == <<n, Append(path, n)>>
    IN  stack \o Comprehend(SelectSeq(Reverse(nbrs[current]), fresh), entry)

\* DfsPush without reversed(): the neighbours pushed in enumeration order
DfsPush_NotReversed(stack, current, path, vis) ==
    LET frontier_nodes == {e[1] : e \in Range(stack)}
        fresh(n) == n \notin vis /\ n \notin frontier_nodes
        entry(n) == <<n, Append(path, n)>>
    IN  stack \o Comprehend(SelectSeq(nbrs[current], fresh), entry)

\* the stack after the for loop over reversed(list(graph.neighbors(current)))
DfsPush(stack, current, path, vis) ==
    LET frontier_nodes == {e[1] : e \in Range(stack)}
        fresh(n) == n \notin vis /\ n \notin frontier_nodes
        entry(n) == <<n, Append(path, n)>>
    IN  stack \o Comprehend(SelectSeq(Reverse(nbrs[current]), fresh), entry)

\* one evaluation of "while stack:" and the iteration it starts
DfsStep ==
    /\ alg = "dfs"
    /\ pc = "loop"
    /\ IF frontier = << >>
       THEN /\ pc' = "done"
            /\ result' = NoPath
            /\ UNCHANGED <<frontier, visited, events>>
       ELSE LET current == Last(frontier)[1]
                path == Last(frontier)[2]
                stack == Front(frontier)
                vis == MarkVisited(visited, current)
            IN  IF AlreadyVisited(visited, current)
                THEN /\ frontier' = stack
                     /\ UNCHANGED <<pc, result, visited, events>>
                ELSE IF current = goal
                THEN /\ frontier' = stack
                     /\ visited' = vis
                     /\ events' = Append(events,
                            Event(current, None, None, path, SnapshotNone(stack, vis)))
                     /\ result' = path
                     /\ pc' = "done"
                ELSE IF ~HasNode(current)
                THEN /\ frontier' = stack
                     /\ visited' = vis
                     /\ pc' = "raised"
                     /\ UNCHANGED <<result, events>>
                ELSE /\ frontier' = DfsPush(stack, current, path, vis)
                     /\ visited' = vis
                     /\ events' = Append(events,
                            Event(current, None, None, path,
                                  SnapshotNone(DfsPush(stack, current, path, vis), vis)))
                     /\ UNCHANGED <<pc, result>>
    /\ Reported
    /\ UNCHANGED <<traces, inputs, visited_g, frontier_start, frontier_goal,
                   visited_start, visited_goal, meet, depth>>

----------------------------------------------------------------------------
(* bfs                                                                     *)

\* BfsPush with appendleft in place of append
BfsPush_AppendLeft(queue, current, path, vis) ==
    LET frontier_nodes == {e[1] : e \in Range(queue)}
        fresh(n) == n \notin vis /\ n \notin frontier_nodes
        entry(n) == <<n, Append(path, n)>>
    IN  Reverse(Comprehend(SelectSeq(nbrs[current], fresh), entry)) \o queue

\* the queue after the for loop over graph.neighbors(current)
BfsPush(queue, current, path, vis) ==
    LET frontier_nodes == {e[1] : e \in Range(queue)}
        fresh(n) == n \notin vis /\ n \notin frontier_nodes
        entry(n) == <<n, Append(path, n)>>
    IN  queue \o Comprehend(SelectSeq(nbrs[current], fresh), entry)

\* the value bfs returns when its loop is entered with this queue and
\* visited set
RECURSIVE BfsReturn(_, _)
BfsReturn(queue, vis) ==
    IF queue = << >> THEN NoPath
    ELSE IF Head(queue)[1] \in vis THEN BfsReturn(Tail(queue), vis)
    ELSE IF Head(queue)[1] = goal THEN Head(queue)[2]
    ELSE BfsReturn(BfsPush(Tail(queue), Head(queue)[1], Head(queue)[2],
                           MarkVisited(vis, Head(queue)[1])),
                   MarkVisited(vis, Head(queue)[1]))

\* bfs(graph, start, goal, heuristic, report): the value returned
Bfs == BfsReturn(<<(<<start, <<start>>>>)>>, {})

\* one evaluation of "while queue:" and the iteration it starts
BfsStep ==
    /\ alg = "bfs"
    /\ pc = "loop"
    /\ IF frontier = << >>
       THEN /\ pc' = "done"
            /\ result' = NoPath
            /\ UNCHANGED <<frontier, visited, events>>
       ELSE LET current == Head(frontier)[1]
                path == Head(frontier)[2]
                queue == Tail(frontier)
                vis == MarkVisited(visited, current)
            IN  IF AlreadyVisited(visited, current)
                THEN /\ frontier' = queue
                     /\ UNCHANGED <<pc, result, visited, events>>
                ELSE IF current = goal
                THEN /\ frontier' = queue
                     /\ visited' = vis
                     /\ events' = Append(events,
                            Event(current, None, None, path, SnapshotNone(queue, vis)))
                     /\ result' = path
                     /\ pc' = "done"
                ELSE IF ~HasNode(current)
                THEN /\ frontier' = queue
                     /\ visited' = vis
                     /\ pc' = "raised"
                     /\ UNCHANGED <<result, events>>
                ELSE /\ frontier' = BfsPush(queue, current, path, vis)
                     /\ visited' = vis
                     /\ events' = Append(events,
                            Event(current, None, None, path,
                                  SnapshotNone(BfsPush(queue, current, path, vis), vis)))
                     /\ UNCHANGED <<pc, result>>
    /\ Reported
    /\ UNCHANGED <<traces, inputs, visited_g, frontier_start, frontier_goal,
                   visited_start, visited_goal, meet, depth>>

----------------------------------------------------------------------------
(* ucs                                                                     *)

\* UcsPush with new_g = g + 1: the "weight" attribute unread
UcsPush_WeightUnread(heap, g, current, path, vis) ==
    LET unvisited(n) == n \notin vis
        entry(n) == <<g + 1, n, Append(path, n)>>
    IN  PushAll(heap, Comprehend(SelectSeq(nbrs[current], unvisited), entry))

\* UcsPush with new_g = edge_weight, the cost so far left out
UcsPush_CostNotAccumulated(heap, g, current, path, vis) ==
    LET unvisited(n) == n \notin vis
        entry(n) == <<EdgeWeight(current, n), n, Append(path, n)>>
    IN  PushAll(heap, Comprehend(SelectSeq(nbrs[current], unvisited), entry))

\* the heap after the for loop over graph.neighbors(current)
UcsPush(heap, g, current, path, vis) ==
    LET unvisited(n) == n \notin vis
        entry(n) == <<g + EdgeWeight(current, n), n, Append(path, n)>>
    IN  PushAll(heap, Comprehend(SelectSeq(nbrs[current], unvisited), entry))

\* one evaluation of "while frontier:" and the iteration it starts
UcsStep ==
    /\ alg = "ucs"
    /\ pc = "loop"
    /\ IF frontier = << >>
       THEN /\ pc' = "done"
            /\ result' = NoPath
            /\ UNCHANGED <<frontier, visited, events>>
       ELSE LET g == heappop_item(frontier)[1]
                current == heappop_item(frontier)[2]
                path == heappop_item(frontier)[3]
                heap == heappop_rest(frontier)
                vis == MarkVisited(visited, current)
            IN  IF AlreadyVisited(visited, current)
                THEN /\ frontier' = heap
                     /\ UNCHANGED <<pc, result, visited, events>>
                ELSE IF current = goal
                THEN /\ frontier' = heap
                     /\ visited' = vis
                     /\ events' = Append(events,
                            Event(current, g, None, path, SnapshotCost(heap, vis, FALSE)))
                     /\ result' = path
                     /\ pc' = "done"
                ELSE IF ~HasNode(current)
                THEN /\ frontier' = heap
                     /\ visited' = vis
                     /\ pc' = "raised"
                     /\ UNCHANGED <<result, events>>
                ELSE /\ frontier' = UcsPush(heap, g, current, path, vis)
                     /\ visited' = vis
                     /\ events' = Append(events,
                            Event(current, g, None, path,
                                  SnapshotCost(UcsPush(heap, g, current, path, vis), vis, TRUE)))
                     /\ UNCHANGED <<pc, result>>
    /\ Reported
    /\ UNCHANGED <<traces, inputs, visited_g, frontier_start, frontier_goal,
                   visited_start, visited_goal, meet, depth>>

----------------------------------------------------------------------------
(* a_star                                                                  *)

\* AStarPush with new_h = heuristic(current): the estimate of the parent
AStarPush_ParentEstimate(heap, g, current, path) ==
    LET entry(n) == <<g + EdgeWeight(current, n) + heur[current],
                      g + EdgeWeight(current, n), n, Append(path, n)>>
    IN  PushAll(heap, Comprehend(nbrs[current], entry))

\* AStarPush with every edge taken to weigh 1: the "weight" attribute unread
AStarPush_WeightUnread(heap, g, current, path) ==
    LET entry(n) == <<g + 1 + heur[n], g + 1, n, Append(path, n)>>
    IN  PushAll(heap, Comprehend(nbrs[current], entry))

\* the heap after the for loop over graph.neighbors(current)
AStarPush(heap, g, current, path) ==
    LET entry(n) == <<g + EdgeWeight(current, n) + heur[n],
                      g + EdgeWeight(current, n), n, Append(path, n)>>
    IN  PushAll(heap, Comprehend(nbrs[current], entry))

\* the dict d after d[k] = v
DictSet(d, k, v) ==
    [x \in DOMAIN d \cup {k} |-> IF x = k THEN v ELSE d[x]]

\* AStarDiscards with ">" in place of ">=": an entry whose g equals the
\* recorded g is expanded again
AStarDiscards_OnlyGreater(visdict, current, g) ==
    current \in DOMAIN visdict /\ g > visdict[current]

\* AStarDiscards as a closed set: "current in visited", whatever the g
AStarDiscards_ClosedSet(visdict, current, g) == current \in DOMAIN visdict

\* "current in visited and g >= visited[current]": the popped entry is
\* discarded
AStarDiscards(visdict, current, g) ==
    current \in DOMAIN visdict /\ g >= visdict[current]

\* what a_star does once its loop is entered with this heap and visited
\* dict, evs being the events reported before: the value returned, the
\* events reported, and whether it was left by an exception
RECURSIVE AStarRun(_, _, _)
AStarRun(heap, visdict, evs) ==
    IF heap = << >>
    THEN [result |-> NoPath, events |-> evs, raised |-> FALSE]
    ELSE LET g == heappop_item(heap)[2]
             current == heappop_item(heap)[3]
             path == heappop_item(heap)[4]
             rest == heappop_rest(heap)
             vis == DictSet(visdict, current, g)
             pushed == AStarPush(rest, g, current, path)
         IN  IF AStarDiscards(visdict, current, g)
             THEN AStarRun(rest, visdict, evs)
             ELSE IF current = goal
             THEN [result |-> path,
                   events |-> Append(evs, Event(current, g, heur[current], path,
                                                SnapshotAStar(rest, vis))),
                   raised |-> FALSE]
             ELSE IF ~HasNode(current)
             THEN [result |-> NoPath, events |-> evs, raised |-> TRUE]
             ELSE AStarRun(pushed, vis,
                           Append(evs, Event(current, g, heur[current], path,
                                             SnapshotAStar(pushed, vis))))

\* a_star(graph, start, goal, heuristic, report)
AStar == AStarRun(<<(<<0 + heur[start], 0, start, <<start>>>>)>>, << >>, << >>)

\* one evaluation of "while frontier:" and the iteration it starts
AStarStep ==
    /\ alg = "a_star"
    /\ pc = "loop"
    /\ IF frontier = << >>
       THEN /\ pc' = "done"
            /\ result' = NoPath
            /\ UNCHANGED <<frontier, visited_g, events>>
       ELSE LET g == heappop_item(frontier)[2]
                current == heappop_item(frontier)[3]
                path == heappop_item(frontier)[4]
                heap == heappop_rest(frontier)
                vis == DictSet(visited_g, current, g)
            IN  IF AStarDiscards(visited_g, current, g)
                THEN /\ frontier' = heap
                     /\ UNCHANGED <<pc, result, visited_g, events>>
                ELSE IF current = goal
                THEN /\ frontier' = heap
                     /\ visited_g' = vis
                     /\ events' = Append(events,
                            Event(current, g, heur[current], path, SnapshotAStar(heap, vis)))
                     /\ result' = path
                     /\ pc' = "done"
                ELSE IF ~HasNode(current)
                THEN /\ frontier' = heap
                     /\ visited_g' = vis
                     /\ pc' = "raised"
                     /\ UNCHANGED <<result, events>>
                ELSE /\ frontier' = AStarPush(heap, g, current, path)
                     /\ visited_g' = vis
                     /\ events' = Append(events,
                            Event(current, g, heur[current], path,
                                  SnapshotAStar(AStarPush(heap, g, current, path), vis)))
                     /\ UNCHANGED <<pc, result>>
    /\ Reported
    /\ UNCHANGED <<traces, inputs, visited, frontier_start, frontier_goal,
                   visited_start, visited_goal, meet, depth>>

----------------------------------------------------------------------------
(* greedy_search                                                           *)

\* GreedyPush without "neighbor not in frontier_nodes"
GreedyPush_NoFrontierTest(heap, current, path, vis) ==
    LET fresh(n) == n \notin vis
        entry(n) == <<heur[n], n, Append(path, n)>>
    IN  PushAll(heap, Comprehend(SelectSeq(nbrs[current], fresh), entry))

\* the heap after the for loop over graph.neighbors(current)
GreedyPush(heap, current, path, vis) ==
    LET frontier_nodes == {e[2] : e \in Range(heap)}
        fresh(n) == n \notin vis /\ n \notin frontier_nodes
        entry(n) == <<heur[n], n, Append(path, n)>>
    IN  PushAll(heap, Comprehend(SelectSeq(nbrs[current], fresh), entry))

\* one evaluation of "while frontier:" and the iteration it starts
GreedyStep ==
    /\ alg = "greedy_search"
    /\ pc = "loop"
    /\ IF frontier = << >>
       THEN /\ pc' = "done"
            /\ result' = NoPath
            /\ UNCHANGED <<frontier, visited, events>>
       ELSE LET current == heappop_item(frontier)[2]
                path == heappop_item(frontier)[3]
                heap == heappop_rest(frontier)
                vis == MarkVisited(visited, current)
            IN  IF AlreadyVisited(visited, current)
                THEN /\ frontier' = heap
                     /\ UNCHANGED <<pc, result, visited, events>>
                ELSE IF current = goal
                THEN /\ frontier' = heap
                     /\ visited' = vis
                     /\ events' = Append(events,
                            Event(current, None, heur[current], path,
                                  SnapshotCost(heap, vis, TRUE)))
                     /\ result' = path
                     /\ pc' = "done"
                ELSE IF ~HasNode(current)
                THEN /\ frontier' = heap
                     /\ visited' = vis
                     /\ pc' = "raised"
                     /\ UNCHANGED <<result, events>>
                ELSE /\ frontier' = GreedyPush(heap, current, path, vis)
                     /\ visited' = vis
                     /\ events' = Append(events,
                            Event(current, None, heur[current], path,
                                  SnapshotCost(GreedyPush(heap, current, path, vis), vis, TRUE)))
                     /\ UNCHANGED <<pc, result>>
    /\ Reported
    /\ UNCHANGED <<traces, inputs, visited_g, frontier_start, frontier_goal,
                   visited_start, visited_goal, meet, depth>>

----------------------------------------------------------------------------
(* bidirectional_search                                                    *)

\* no meeting node (nodes are positive)
NoMeeting == 0

\* the for loop of expand_frontier over the neighbours nb still to come:
\* the deque and visited_self as the loop leaves them, and the neighbour
\* found in visited_other if the loop returned at one
RECURSIVE ExpandLoop(_, _, _, _, _)
ExpandLoop(nb, path, fr, vself, vother) ==
    IF nb = << >>
    THEN [frontier |-> fr, visited_self |-> vself, meeting |-> NoMeeting]
    ELSE IF Head(nb) \in DOMAIN vself
    THEN ExpandLoop(Tail(nb), path, fr, vself, vother)
    ELSE IF Head(nb) \in DOMAIN vother
    THEN [frontier |-> Append(fr, <<Head(nb), Append(path, Head(nb))>>),
          visited_self |-> DictSet(vself, Head(nb), Append(path, Head(nb))),
          meeting |-> Head(nb)]
    ELSE ExpandLoop(Tail(nb), path,
                    Append(fr, <<Head(nb), Append(path, Head(nb))>>),
                    DictSet(vself, Head(nb), Append(path, Head(nb))), vother)

\* ReversedWithoutLast as list[::-1]: the last element is kept
ReversedWithoutLast_KeepsLast(p) == Reverse(p)

\* list[-2::-1]
ReversedWithoutLast(p) == Reverse(Front(p))

\* what expand_frontier returns at a meeting
JoinPaths(direction, path_from_start, path_from_goal) ==
    IF direction = "forward"
    THEN path_from_start \o ReversedWithoutLast(path_from_goal)
    ELSE path_from_goal \o ReversedWithoutLast(path_from_start)

\* expand_frontier(frontier, visited_self, visited_other, direction): the
\* deque and visited_self afterwards, the event reported, the value returned
ExpandFrontier(fr, vself, vother, direction) ==
    LET current == Head(fr)[1]
        path == Head(fr)[2]
        r == ExpandLoop(nbrs[current], path, Tail(fr), vself, vother)
        snapshot == SnapshotNone(r.frontier, DOMAIN r.visited_self)
    IN  IF r.meeting # NoMeeting
        THEN [frontier |-> r.frontier, visited_self |-> r.visited_self,
              event |-> Event(r.meeting, None, None, r.visited_self[r.meeting], snapshot),
              result |-> IF direction = "forward"
                         THEN JoinPaths(direction, r.visited_self[r.meeting], vother[r.meeting])
                         ELSE JoinPaths(direction, vother[r.meeting], r.visited_self[r.meeting])]
        ELSE [frontier |-> r.frontier, visited_self |-> r.visited_self,
              event |-> Event(current, None, None, path, snapshot),
              result |-> NoPath]

\* NextTurn with the backward call left out: the forward side goes on
NextTurn_SameSide(turn) == "fwd"

\* the side whose expand_frontier call follows the one of side turn in the
\* loop body: forward, backward, and forward again after the loop test
NextTurn(turn) == IF turn = "fwd" THEN "bwd" ELSE "fwd"

\* BidirLoopEnds with the test inverted: the loop runs while a deque is empty
BidirLoopEnds_Inverted(fs, fg) == fs # << >> /\ fg # << >>

\* "while frontier_start and frontier_goal:" finds a deque empty
BidirLoopEnds(fs, fg) == fs = << >> \/ fg = << >>

\* "while frontier_start and frontier_goal:" and the forward half of the
\* iteration it starts
BidirForward ==
    /\ alg = "bidirectional_search"
    /\ pc = "fwd"
    /\ IF BidirLoopEnds(frontier_start, frontier_goal)
       THEN /\ pc' = "done"
            /\ result' = NoPath
            /\ UNCHANGED <<frontier_start, visited_start, events, meet>>
       ELSE IF ~HasNode(Head(frontier_start)[1])
       THEN /\ frontier_start' = Tail(frontier_start)
            /\ pc' = "raised"
            /\ UNCHANGED <<visited_start, events, result, meet>>
       ELSE LET x == ExpandFrontier(frontier_start, visited_start, visited_goal, "forward")
            IN  /\ frontier_start' = x.frontier
                /\ visited_start' = x.visited_self
                /\ events' = Append(events, x.event)
                /\ result' = x.result
                /\ pc' = IF x.result # NoPath THEN "done" ELSE NextTurn("fwd")
                /\ meet' = IF x.result # NoPath THEN "forward" ELSE meet
    /\ Reported
    /\ UNCHANGED <<traces, inputs, frontier, visited, visited_g, frontier_goal,
                   visited_goal, depth>>

\* the backward half of the iteration
BidirBackward ==
    /\ alg = "bidirectional_search"
    /\ pc = "bwd"
    /\ IF ~HasNode(Head(frontier_goal)[1])
       THEN /\ frontier_goal' = Tail(frontier_goal)
            /\ pc' = "raised"
            /\ UNCHANGED <<visited_goal, events, result, meet>>
       ELSE LET x == ExpandFrontier(frontier_goal, visited_goal, visited_start, "backward")
            IN  /\ frontier_goal' = x.frontier
                /\ visited_goal' = x.visited_self
                /\ events' = Append(events, x.event)
                /\ result' = x.result
                /\ pc' = IF x.result # NoPath THEN "done" ELSE NextTurn("bwd")
                /\ meet' = IF x.result # NoPath THEN "backward" ELSE meet
    /\ Reported
    /\ UNCHANGED <<traces, inputs, frontier, visited, visited_g, frontier_start,
                   visited_start, depth>>

----------------------------------------------------------------------------
(* depth_limited_dfs and iterative_deepening_dfs                           *)

\* depth_limited_dfs(graph, current, goal, limit, path, visited, report):
\* the value returned, the events reported, the shared visited set as the
\* call leaves it, whether it was left by an exception, and the visited set
\* as each call found it on entry (one per event, in the order of the
\* events).  DlsLoop is its for loop over the neighbours nb still to come.
RECURSIVE DepthLimitedDfs(_, _, _, _), DlsLoop(_, _, _, _, _, _)

\* DepthLimitedDfs without visited.remove(current): the marks stay
DepthLimitedDfs_NoUnmark(current, limit, path, vis) ==
    LET ev == <<Event(current, None, None, path, << >>)>>
    IN  IF current = goal
        THEN [result |-> path, events |-> ev, visited |-> vis, raised |-> FALSE,
              entered |-> <<vis>>]
        ELSE IF limit = 0
        THEN [result |-> NoPath, events |-> ev, visited |-> vis, raised |-> FALSE,
              entered |-> <<vis>>]
        ELSE IF ~HasNode(current)
        THEN [result |-> NoPath, events |-> ev, visited |-> vis \cup {current},
              raised |-> TRUE, entered |-> <<vis>>]
        ELSE DlsLoop(nbrs[current], limit, path, vis \cup {current}, ev, <<vis>>)

DepthLimitedDfs(current, limit, path, vis) ==
    LET ev == <<Event(current, None, None, path, << >>)>>
        after(r) == IF r.result # NoPath \/ r.raised
                    THEN r
                    ELSE [result |-> NoPath, events |-> r.events,
                          visited |-> r.visited \ {current}, raised |-> FALSE,
                          entered |-> r.entered]
    IN  IF current = goal
        THEN [result |-> path, events |-> ev, visited |-> vis, raised |-> FALSE,
              entered |-> <<vis>>]
        ELSE IF limit = 0
        THEN [result |-> NoPath, events |-> ev, visited |-> vis, raised |-> FALSE,
              entered |-> <<vis>>]
        ELSE IF ~HasNode(current)
        THEN [result |-> NoPath, events |-> ev, visited |-> vis \cup {current},
              raised |-> TRUE, entered |-> <<vis>>]
        ELSE Bind(DlsLoop(nbrs[current], limit, path, vis \cup {current}, ev, <<vis>>),
                  after)

DlsLoop(nb, limit, path, vis, evs, ens) ==
    LET after(r) == IF r.result # NoPath \/ r.raised
                    THEN [result |-> r.result, events |-> evs \o r.events,
                          visited |-> r.visited, raised |-> r.raised,
                          entered |-> ens \o r.entered]
                    ELSE DlsLoop(Tail(nb), limit, path, r.visited,
                                 evs \o r.events, ens \o r.entered)
    IN  IF nb = << >>
        THEN [result |-> NoPath, events |-> evs, visited |-> vis, raised |-> FALSE,
              entered |-> ens]
        ELSE IF Head(nb) \in vis
        THEN DlsLoop(Tail(nb), limit, path, vis, evs, ens)
        ELSE Bind(DepthLimitedDfs(Head(nb), limit - 1, Append(path, Head(nb)), vis),
                  after)

\* depth limits the model follows iterative_deepening_dfs through; its
\* "while True:" goes on
MaxDepth == 5

\* NextDepth with "depth += 2": every other limit is left out
NextDepth_SkipsOne(d) == d + 2

\* "depth += 1"
NextDepth(d) == d + 1

\* one iteration of "while True:": a call of depth_limited_dfs with a fresh
\* visited set
IddfsStep ==
    /\ alg = "iterative_deepening_dfs"
    /\ pc = "loop"
    /\ depth <= MaxDepth
    /\ LET r == DepthLimitedDfs(start, depth, <<start>>, {})
       IN  /\ events' = events \o r.events
           /\ visited' = r.visited
           /\ IF r.raised
              THEN /\ pc' = "raised"
                   /\ UNCHANGED <<depth, result>>
              ELSE IF r.result # NoPath
              THEN /\ result' = r.result
                   /\ pc' = "done"
                   /\ UNCHANGED depth
              ELSE /\ depth' = NextDepth(depth)
                   /\ UNCHANGED <<pc, result>>
    /\ Reported
    /\ UNCHANGED <<traces, inputs, frontier, visited_g, frontier_start, frontier_goal,
                   visited_start, visited_goal, meet>>

----------------------------------------------------------------------------
(* The calls the model makes: the graphs, heuristics, start and goal.      *)

OrderDriven == {"dfs", "bfs", "iterative_deepening_dfs", "bidirectional_search"}
CostDriven == {"ucs", "a_star", "greedy_search"}

Nodes == 1..NumNodes

\* the possible edges between the nodes of S
EdgesOver(S) == {e \in SUBSET S : Cardinality(e) = 2}

Adjacent(E, n) == {m \in UNION E : {n, m} \in E}

\* the lists that hold every element of S once
Orderings(S) ==
    {f \in [1..Cardinality(S) -> S] : \A i, j \in DOMAIN f : i # j => f[i] # f[j]}

\* S in increasing order
RECURSIVE Ascending(_)
Ascending(S) ==
    IF S = {} THEN << >>
    ELSE LET m == CHOOSE x \in S : \A y \in S : x <= y
         IN  <<m>> \o Ascending(S \ {m})

\* every neighbour enumeration order of the graph with nodes 1..n, edges E
RECURSIVE NeighbourOrders(_, _)
NeighbourOrders(E, n) ==
    IF n = 0 THEN {<< >>}
    ELSE {Append(f, o) : f \in NeighbourOrders(E, n - 1), o \in Orderings(Adjacent(E, n))}

\* the enumeration order when every node lists its neighbours increasingly
AscendingOrder(E, n) == [i \in 1..n |-> Ascending(Adjacent(E, i))]

\* the edges of the ring 1 - 2 - ... - n - 1
RingEdges(n) == {{i, (i % n) + 1} : i \in 1..n}

Unweighted(E) == [e \in E |-> NoWeight]

ZeroHeuristic(n) == [i \in 1..n |-> 0]

\* the state in which strategy a, called with start s and goal t, enters its
\* loop: the position, the single frontier, the deque and the visited map of
\* a side of bidirectional_search
RunPc(a) == IF a = "bidirectional_search" THEN "fwd" ELSE "loop"

RunFrontier(a, s) ==
    CASE a \in {"dfs", "bfs"} -> <<(<<s, <<s>>>>)>>
      [] a = "ucs" -> <<(<<0, s, <<s>>>>)>>
      [] a = "a_star" -> <<(<<0 + heur[s], 0, s, <<s>>>>)>>
      [] a = "greedy_search" -> <<(<<heur[s], s, <<s>>>>)>>
      [] OTHER -> << >>

RunDeque(a, n) ==
    IF a = "bidirectional_search" THEN <<(<<n, <<n>>>>)>> ELSE << >>

RunVisitedMap(a, n) ==
    IF a = "bidirectional_search" THEN DictSet(<< >>, n, <<n>>) ELSE << >>

\* a tracer just constructed, in its first trace() call: the strategy alg
\* enters its loop
InitRun ==
    /\ pc = RunPc(alg)
    /\ frontier = RunFrontier(alg, start)
    /\ visited = {}
    /\ visited_g = << >>
    /\ frontier_start = RunDeque(alg, start)
    /\ frontier_goal = RunDeque(alg, goal)
    /\ visited_start = RunVisitedMap(alg, start)
    /\ visited_goal = RunVisitedMap(alg, goal)
    /\ meet = "none"
    /\ depth = 0
    /\ events = << >>
    /\ result = NoPath
    /\ expansion_order = << >>
    /\ traces = 1

\* an order-driven strategy on any graph over Nodes, any enumeration order
InitSmall ==
    /\ alg \in OrderDriven
    /\ \E E \in SUBSET EdgesOver(Nodes) :
          /\ nbrs \in NeighbourOrders(E, NumNodes)
          /\ wt = Unweighted(E)
    /\ heur = ZeroHeuristic(NumNodes)
    /\ start \in Nodes
    /\ goal \in Nodes

\* an order-driven strategy on a ring, any enumeration order
InitRing ==
    /\ alg \in OrderDriven
    /\ \E n \in (MaxRing - 1)..MaxRing :
          /\ nbrs \in NeighbourOrders(RingEdges(n), n)
          /\ wt = Unweighted(RingEdges(n))
          /\ heur = ZeroHeuristic(n)
          /\ start \in 1..n
          /\ goal \in 1..n

\* a cost-driven strategy on any graph over Nodes with any weights and
\* heuristic the strategy reads; a_star's heuristic is the default one on
\* the graphs that have an edge of weight 0
InitCost ==
    /\ alg \in CostDriven
    /\ \E E \in SUBSET EdgesOver(Nodes) :
          /\ nbrs = AscendingOrder(E, NumNodes)
          /\ wt \in [E -> IF alg = "greedy_search" THEN {NoWeight}
                          ELSE {NoWeight, 0, BigCost}]
    /\ heur \in IF alg = "ucs" \/ (alg = "a_star" /\ 0 \in Range(wt))
                THEN {ZeroHeuristic(NumNodes)}
                ELSE [Nodes -> {0, BigCost}]
    /\ start \in Nodes
    /\ goal \in Nodes

\* any strategy on a graph over the other nodes, called with start or goal
\* the node NumNodes, which the graph does not have
InitAbsent ==
    /\ alg \in OrderDriven \cup CostDriven
    /\ \E E \in SUBSET EdgesOver(1..(NumNodes - 1)) :
          /\ nbrs = AscendingOrder(E, NumNodes - 1)
          /\ wt = Unweighted(E)
    /\ heur = ZeroHeuristic(NumNodes)
    /\ start \in Nodes
    /\ goal \in Nodes
    /\ start # goal
    /\ NumNodes \in {start, goal}

Init == (InitSmall \/ InitRing \/ InitCost \/ InitAbsent) /\ InitRun

Next ==
    \/ DfsStep
    \/ BfsStep
    \/ IddfsStep
    \/ UcsStep
    \/ BidirForward
    \/ BidirBackward
    \/ AStarStep
    \/ GreedyStep

Spec == Init /\ [][Next]_vars

\* the enumeration order when every node lists its neighbours decreasingly
DescendingOrder(E, n) == [i \in 1..n |-> Reverse(Ascending(Adjacent(E, i)))]

\* an order-driven strategy on any graph over Nodes, the neighbours
\* enumerated increasingly or decreasingly
InitSorted ==
    /\ alg \in OrderDriven
    /\ \E E \in SUBSET EdgesOver(Nodes) :
          /\ nbrs \in {AscendingOrder(E, NumNodes), DescendingOrder(E, NumNodes)}
          /\ wt = Unweighted(E)
    /\ heur = ZeroHeuristic(NumNodes)
    /\ start \in Nodes
    /\ goal \in Nodes

InitFair == InitSorted /\ InitRun

NextOrderDriven ==
    \/ DfsStep
    \/ BfsStep
    \/ IddfsStep
    \/ BidirForward
    \/ BidirBackward

\* the order-driven strategies run to completion: a call is synchronous and
\* single-threaded, so no iteration that can be made is put off for ever
FairSpec ==
    /\ InitFair
    /\ [][NextOrderDriven]_vars
    /\ WF_vars(NextOrderDriven)

\* trace() calls the model follows on one tracer
MaxTraces == 2

\* TraceKeeps with "self.expansion_order = []" at the head of trace()
TraceKeeps_Cleared(order) == << >>

\* expansion_order as trace() hands it to the run: trace() does not touch it
TraceKeeps(order) == order

\* GraphTracer.trace called again, after the earlier call has returned or
\* has been left by an exception: any strategy, start and goal, on the
\* tracer's graph and heuristic
Trace ==
    /\ pc \in {"done", "raised"}
    /\ traces < MaxTraces
    /\ traces' = traces + 1
    /\ alg' \in OrderDriven \cup CostDriven
    /\ start' \in Nodes
    /\ goal' \in Nodes
    /\ UNCHANGED <<nbrs, wt, heur>>
    /\ pc' = RunPc(alg')
    /\ frontier' = RunFrontier(alg', start')
    /\ visited' = {}
    /\ visited_g' = << >>
    /\ frontier_start' = RunDeque(alg', start')
    /\ frontier_goal' = RunDeque(alg', goal')
    /\ visited_start' = RunVisitedMap(alg', start')
    /\ visited_goal' = RunVisitedMap(alg', goal')
    /\ meet' = "none"
    /\ depth' = 0
    /\ events' = << >>
    /\ result' = NoPath
    /\ expansion_order' = TraceKeeps(expansion_order)

\* a tracer of an unweighted graph over Nodes whose last node has no edge,
\* with the default heuristic, in its first trace() call
InitTraced ==
    /\ alg \in OrderDriven \cup CostDriven
    /\ \E E \in SUBSET EdgesOver(1..(NumNodes - 1)) :
          /\ nbrs = AscendingOrder(E, NumNodes)
          /\ wt = Unweighted(E)
    /\ heur = ZeroHeuristic(NumNodes)
    /\ start \in Nodes
    /\ goal \in Nodes

InitTrace == InitTraced /\ InitRun

NextTrace ==
    \/ DfsStep
    \/ BfsStep
    \/ IddfsStep
    \/ UcsStep
    \/ BidirForward
    \/ BidirBackward
    \/ AStarStep
    \/ GreedyStep
    \/ Trace

\* one tracer used for up to MaxTraces trace() calls
TraceSpec == InitTrace /\ [][NextTrace]_vars

----------------------------------------------------------------------------
(* Facts about the graph of the call, which the properties are stated      *)
(* with.                                                                   *)

IsEdge(a, b) == HasNode(a) /\ b \in Range(nbrs[a])

\* every consecutive pair of p is joined by an edge
IsWalk(p) == \A i \in 1..(Len(p) - 1) : IsEdge(p[i], p[i + 1])

\* p is a path of the graph from s to t
IsPathFromTo(p, s, t) == p # << >> /\ p[1] = s /\ Last(p) = t /\ IsWalk(p)

\* the paths without repeated node that extend p and end at t
RECURSIVE SimplePaths(_, _)
SimplePaths(p, t) ==
    IF Last(p) = t THEN {p}
    ELSE IF ~HasNode(Last(p)) THEN {}
    ELSE UNION {SimplePaths(Append(p, n), t) : n \in Range(nbrs[Last(p)]) \ Range(p)}

Reachable(s, t) == SimplePaths(<<s>>, t) # {}

\* the nodes reachable from s, s included
ReachableFrom(s) == {t \in DOMAIN nbrs : Reachable(s, t)}

Minimum(S) == CHOOSE x \in S : \A y \in S : x <= y

\* the number of edges of p
Edges(p) == Len(p) - 1

\* the fewest edges of a path from s to t (t reachable from s)
MinEdges(s, t) == Minimum({Edges(p) : p \in SimplePaths(<<s>>, t)})

\* the total weight of p
RECURSIVE TotalWeight(_)
TotalWeight(p) ==
    IF Len(p) <= 1 THEN 0
    ELSE EdgeWeight(p[1], p[2]) + TotalWeight(Tail(p))

\* the least total weight of a path from s to t (t reachable from s; with
\* weights that are not negative a path without repeated node attains it)
MinWeight(s, t) == Minimum({TotalWeight(p) : p \in SimplePaths(<<s>>, t)})

Returned == pc = "done"

----------------------------------------------------------------------------
(* Properties.                                                             *)

\* C1: whenever dfs, bfs, iterative_deepening_dfs, ucs, greedy_search or
\* a_star returns a path, its first node is start, its last node is goal and
\* every consecutive pair of its nodes is joined by an edge of the graph.
C1_PathValidity ==
    (alg # "bidirectional_search" /\ result # NoPath)
        => IsPathFromTo(result, start, goal)

\* C1's case: such a strategy has returned a path of at least two edges
C1_Witness ==
    /\ alg = "dfs"
    /\ Returned
    /\ Len(result) >= 3

\* the path expand_frontier assembles at the meeting node, as the claim C2
\* describes it
ForwardThenReversedBackward ==
    LET m == Last(events).expanded_node
    IN  visited_start[m] \o ReversedWithoutLast(visited_goal[m])

\* C2: on an undirected graph with start # goal, whichever side detected the
\* meeting, the path bidirectional_search returns is the forward path to the
\* meeting node followed by the reversed backward path without the meeting
\* node: a path from start to goal.
C2_MeetingPath ==
    (alg = "bidirectional_search" /\ start # goal /\ result # NoPath)
        => /\ result = ForwardThenReversedBackward
           /\ IsPathFromTo(result, start, goal)

\* C3: on a unit-weight graph with goal reachable from start, the path bfs
\* returns has the fewest edges of all paths from start to goal.
C3_BfsFewestEdges ==
    (alg = "bfs" /\ Returned /\ Reachable(start, goal))
        => /\ IsPathFromTo(result, start, goal)
           /\ Edges(result) = MinEdges(start, goal)

\* C3's case: bfs has returned a path although a longer one exists
C3_Witness ==
    /\ alg = "bfs"
    /\ Returned
    /\ result # NoPath
    /\ \E p \in SimplePaths(<<start>>, goal) : Edges(p) > Edges(result)
    /\ Edges(result) >= 2

\* the call of the spec's example: the graph A-B (1), B-D (1), A-C (5),
\* C-D (1) with A, B, C, D as 1, 2, 3, 4, searched from A to D
DiamondCall ==
    /\ nbrs = <<(<<2, 3>>), <<1, 4>>, <<1, 4>>, <<2, 3>>>>
    /\ wt = [e \in {{1, 2}, {2, 4}, {1, 3}, {3, 4}} |->
                IF e = {1, 3} THEN 5 ELSE NoWeight]
    /\ start = 1
    /\ goal = 4

\* C4: with edge weights that are not negative and goal reachable from
\* start, the path ucs returns has the least total weight of all paths from
\* start to goal; on the example graph ucs from A to D returns [A, B, D].
C4_UcsLeastWeight ==
    /\ (alg = "ucs" /\ Returned /\ Reachable(start, goal))
          => /\ IsPathFromTo(result, start, goal)
             /\ TotalWeight(result) = MinWeight(start, goal)
    /\ (alg = "ucs" /\ Returned /\ DiamondCall) => result = <<1, 2, 4>>

\* C4's case: ucs has returned from the example call
C4_Witness ==
    /\ alg = "ucs"
    /\ Returned
    /\ DiamondCall
    /\ TotalWeight(result) = 2

\* h never exceeds the least total weight of a path to goal
Admissible ==
    \A n \in DOMAIN nbrs : Reachable(n, goal) => heur[n] <= MinWeight(n, goal)

\* h(a) <= weight(a, b) + h(b) on every edge
Consistent ==
    \A a, b \in DOMAIN nbrs : IsEdge(a, b) => heur[a] <= EdgeWeight(a, b) + heur[b]

\* some node is the expanded node of two events
ExpandedTwice ==
    \E i, j \in DOMAIN events :
        i < j /\ events[i].expanded_node = events[j].expanded_node

\* C5: with edge weights that are not negative and an admissible heuristic
\* (consistent or not), the path a_star returns has the least total weight of
\* all paths from start to goal.
C5_AStarLeastWeight ==
    (alg = "a_star" /\ Returned /\ Admissible /\ Reachable(start, goal))
        => /\ IsPathFromTo(result, start, goal)
           /\ TotalWeight(result) = MinWeight(start, goal)

\* C5's case: a_star has returned a path under an admissible heuristic that
\* is not consistent, after expanding a node a second time
C5_Witness ==
    /\ alg = "a_star"
    /\ Returned
    /\ result # NoPath
    /\ Admissible
    /\ ~Consistent
    /\ ExpandedTwice

\* C6: on an undirected unit-weight graph with start # goal and goal
\* reachable from start, under every neighbour enumeration order, the path
\* bidirectional_search returns has as many edges as the path bfs returns for
\* the same call.
C6_BidirectionalAsShortAsBfs ==
    (alg = "bidirectional_search" /\ Returned /\ start # goal
        /\ Reachable(start, goal))
        => /\ result # NoPath
           /\ Edges(result) = Edges(Bfs)

\* C7: on a graph in which goal is not reachable from start, every strategy
\* eventually returns the no-path result.
C7_NoPathIsReturned ==
    (~Reachable(start, goal)) => <>(Returned /\ result = NoPath)

\* the nodes that are the expanded node of some event
ExpandedNodes == {events[i].expanded_node : i \in DOMAIN events}

\* a loop-based strategy has returned no-path on a call whose goal is not
\* reachable from start
ReturnedNoPath ==
    /\ alg # "iterative_deepening_dfs"
    /\ Returned
    /\ result = NoPath
    /\ ~Reachable(start, goal)

\* C8 as claimed: when goal is not reachable from start, dfs, bfs, ucs,
\* greedy_search, a_star and bidirectional_search report at most as many
\* expansion events as there are nodes reachable from start.
C8_EventsWithinReachable ==
    ReturnedNoPath => Len(events) <= Cardinality(ReachableFrom(start))

\* C8 as amended: that bound holds of dfs, bfs, ucs and greedy_search, and
\* of a_star under a consistent heuristic; under any heuristic a_star expands
\* only nodes reachable from start; bidirectional_search reports at most as
\* many events as there are nodes reachable from start plus nodes reachable
\* from goal.
C8_EventsWithinReachableAmended ==
    ReturnedNoPath =>
        /\ alg \in {"dfs", "bfs", "ucs", "greedy_search"}
              => Len(events) <= Cardinality(ReachableFrom(start))
        /\ alg = "a_star"
              => /\ ExpandedNodes \subseteq ReachableFrom(start)
                 /\ Consistent => Len(events) <= Cardinality(ReachableFrom(start))
        /\ alg = "bidirectional_search"
              => Len(events) <= Cardinality(ReachableFrom(start))
                                  + Cardinality(ReachableFrom(goal))

\* C8's case: ucs has returned no-path after discarding a second entry of a
\* node it had expanded
C8_Witness ==
    /\ alg = "ucs"
    /\ ReturnedNoPath
    /\ Len(events) = Cardinality(ReachableFrom(start))
    /\ Len(events) >= 3
    /\ \E a, b \in DOMAIN nbrs :
          /\ a # start /\ b # start /\ a # b
          /\ IsEdge(start, a) /\ IsEdge(start, b) /\ IsEdge(a, b)

\* every two nodes of the graph are joined by a path
Connected == \A a, b \in DOMAIN nbrs : Reachable(a, b)

\* C9: on a connected graph dfs and bfs terminate and return a path.
C9_DfsBfsComplete ==
    (alg \in {"dfs", "bfs"} /\ Connected) => <>(Returned /\ result # NoPath)

\* C9's case: dfs has returned a path on a connected graph after expanding
\* every node
C9_Witness ==
    /\ alg = "dfs"
    /\ Connected
    /\ Returned
    /\ result # NoPath
    /\ Len(events) = Cardinality(DOMAIN nbrs)

\* C10: in a run of dfs, bfs, ucs or greedy_search no node is the expanded
\* node of more than one event.
C10_ExpandedOnce ==
    alg \in {"dfs", "bfs", "ucs", "greedy_search"} => ~ExpandedTwice

\* C10's case: ucs holds a second entry of a node it has expanded
C10_Witness ==
    /\ alg = "ucs"
    /\ Len(events) >= 3
    /\ \E i \in DOMAIN frontier : frontier[i][2] \in visited

\* the events of one node carry g-costs that decrease strictly
StrictlySmallerG ==
    \A i, j \in DOMAIN events :
        (i < j /\ events[i].expanded_node = events[j].expanded_node)
            => events[j].g_cost < events[i].g_cost

\* a_star is about to pop an entry whose g is no smaller than the g recorded
\* for its node
PopsStaleEntry ==
    /\ alg = "a_star"
    /\ pc = "loop"
    /\ frontier # << >>
    /\ heappop_item(frontier)[3] \in DOMAIN visited_g
    /\ heappop_item(frontier)[2] >= visited_g[heappop_item(frontier)[3]]

\* C11: in a run of a_star, a later event of a node carries a g-cost strictly
\* smaller than every earlier event of that node, and a popped entry whose g
\* is no smaller than the g recorded for its node is discarded: no event is
\* reported and the recorded g stays.
C11_AStarReexpansion ==
    /\ [](alg = "a_star" => StrictlySmallerG)
    /\ [][PopsStaleEntry => (events' = events /\ visited_g' = visited_g)]_vars

\* C11's case: a_star has popped every entry, the stale ones included, after
\* expanding some node twice
C11_Witness ==
    /\ alg = "a_star"
    /\ Returned
    /\ result = NoPath
    /\ ExpandedTwice
    /\ Len(events) >= 4

\* the call names a start or a goal that the graph does not have
AbsentNodeCall == start # goal /\ (~HasNode(start) \/ ~HasNode(goal))

\* C12: when start or goal is not a node of the graph and start # goal, the
\* strategy returns the no-path result at once: no exception leaves it and
\* it reports no expansion event.
C12_AbsentNodeIsNoPath ==
    AbsentNodeCall =>
        /\ pc # "raised"
        /\ events = << >>
        /\ Returned => result = NoPath

\* the (expanded node, g-cost, path) of every event of evs, in order
NodeCostPath(evs) ==
    [i \in DOMAIN evs |-> <<evs[i].expanded_node, evs[i].g_cost, evs[i].path>>]

\* the heuristic is the constant zero
HeuristicIsZero == \A n \in DOMAIN heur : heur[n] = 0

\* C13: with the constant-zero heuristic and edge weights that are not
\* negative, a_star and ucs called with the same graph, start and goal return
\* the same value and report the same sequence of (expanded node, g-cost,
\* path).
C13_AStarZeroIsUcs ==
    (alg = "ucs" /\ HeuristicIsZero /\ pc \in {"done", "raised"})
        => /\ AStar.result = result
           /\ AStar.raised = (pc = "raised")
           /\ NodeCostPath(AStar.events) = NodeCostPath(events)

\* C13's case: ucs has returned a path after expanding every node of a graph
\* with edges of weight 0, 1 and BigCost, where a_star pushes entries of
\* visited nodes that ucs does not
C13_Witness ==
    /\ alg = "ucs"
    /\ Returned
    /\ result # NoPath
    /\ Len(events) = NumNodes
    /\ {0, NoWeight, BigCost} \subseteq Range(wt)

\* the strategies built on a loop that pops a frontier
LoopBased ==
    alg \in {"dfs", "bfs", "ucs", "greedy_search", "a_star", "bidirectional_search"}

\* the strategy is about to pop an entry from a frontier
Pops ==
    IF alg = "bidirectional_search"
    THEN \/ pc = "fwd" /\ frontier_start # << >> /\ frontier_goal # << >>
         \/ pc = "bwd"
    ELSE pc = "loop" /\ frontier # << >>

\* the node of the entry about to be popped
PoppedNode ==
    CASE alg = "dfs" -> Last(frontier)[1]
      [] alg = "bfs" -> Head(frontier)[1]
      [] alg \in {"ucs", "greedy_search"} -> heappop_item(frontier)[2]
      [] alg = "a_star" -> heappop_item(frontier)[3]
      [] alg = "bidirectional_search" /\ pc = "fwd" -> Head(frontier_start)[1]
      [] alg = "bidirectional_search" /\ pc = "bwd" -> Head(frontier_goal)[1]

\* the entry about to be popped will be discarded
PopIsDiscarded ==
    CASE alg \in {"dfs", "bfs", "ucs", "greedy_search"} -> PoppedNode \in visited
      [] alg = "a_star" -> /\ PoppedNode \in DOMAIN visited_g
                           /\ heappop_item(frontier)[2] >= visited_g[PoppedNode]
      [] alg = "bidirectional_search" -> FALSE

\* C14: in dfs, bfs, ucs, greedy_search, a_star and bidirectional_search
\* (called with nodes of the graph), a step that pops an entry and accepts it
\* reports exactly one event, whose expanded node is the popped node, and
\* any other step reports none.
C14_OneEventPerExpansion ==
    [][(LoopBased /\ HasNode(start) /\ HasNode(goal)) =>
         IF Pops /\ ~PopIsDiscarded
         THEN /\ Len(events') = Len(events) + 1
              /\ SubSeq(events', 1, Len(events)) = events
              /\ Last(events').expanded_node = PoppedNode
         ELSE events' = events]_vars

\* the costs of the (node, cost) pairs of snap never decrease
NonDecreasingCost(snap) ==
    \A i \in 1..(Len(snap) - 1) : snap[i][2] <= snap[i + 1][2]

\* C15: in every event ucs, greedy_search and a_star report, the event of
\* the goal's expansion included, the frontier snapshot is a list of (node,
\* cost) pairs in non-decreasing order of cost.
C15_SnapshotSortedByCost ==
    alg \in {"ucs", "greedy_search", "a_star"} =>
        \A i \in DOMAIN events : NonDecreasingCost(events[i].frontier)

\* C16 (two runs of a strategy on the same call return the same path and
\* report the same events) compares two behaviours; every action above is a
\* function of the state it is taken in, as every statement of the code is,
\* so it holds of this model by construction and is not stated here.

\* bidirectional_search has returned the no-path result
BidirReturnedNoPath ==
    alg = "bidirectional_search" /\ Returned /\ result = NoPath

\* C17 as claimed: bidirectional_search returns the no-path result only with
\* both the forward and the backward frontier empty.
C17_NoPathOnlyWhenBothEmpty ==
    BidirReturnedNoPath => (frontier_start = << >> /\ frontier_goal = << >>)

\* C17 as amended: bidirectional_search returns the no-path result only with
\* the forward or the backward frontier empty, never while both hold an entry.
C17_NoPathOnlyWhenOneEmpty ==
    BidirReturnedNoPath => (frontier_start = << >> \/ frontier_goal = << >>)

\* C17's case: bidirectional_search has returned no-path with the forward
\* frontier empty and an entry left in the backward one
C17_Witness ==
    /\ BidirReturnedNoPath
    /\ frontier_start = << >>
    /\ frontier_goal # << >>
    /\ Len(events) >= 2

\* the preorder of the natural recursive depth-first search: RecursiveDfs
\* visits n after the nodes of order, then RecursiveDfsLoop tries the
\* neighbours nb in turn, skipping those visited by then (a global visited
\* set)
RECURSIVE RecursiveDfs(_, _), RecursiveDfsLoop(_, _)
RecursiveDfs(n, order) == RecursiveDfsLoop(nbrs[n], Append(order, n))

RecursiveDfsLoop(nb, order) ==
    IF nb = << >> THEN order
    ELSE IF Head(nb) \in Range(order) THEN RecursiveDfsLoop(Tail(nb), order)
    ELSE RecursiveDfsLoop(Tail(nb), RecursiveDfs(Head(nb), order))

\* s cut after the first x, all of s when x is not in it
TruncatedAt(s, x) ==
    IF x \in Range(s)
    THEN SubSeq(s, 1, Minimum({i \in DOMAIN s : s[i] = x}))
    ELSE s

\* the expanded nodes of the events, in order
ExpansionOrder == [i \in DOMAIN events |-> events[i].expanded_node]

\* the graph has no cycle: no two paths join the same two nodes
Acyclic ==
    \A a, b \in DOMAIN nbrs : Cardinality(SimplePaths(<<a>>, b)) <= 1

\* C18 as claimed: the nodes dfs expands, in order, are the preorder of the
\* natural recursive depth-first search from start (global visited set,
\* neighbours in enumeration order), cut at goal.
C18_DfsIsRecursivePreorder ==
    (alg = "dfs" /\ Returned /\ HasNode(start))
        => ExpansionOrder = TruncatedAt(RecursiveDfs(start, << >>), goal)

\* C18 as amended: on a graph without cycle the nodes dfs expands, in order,
\* are that preorder cut at goal; on a graph with a cycle dfs leaves out a
\* neighbour already in the frontier and may expand in another order.
C18_DfsIsRecursivePreorderOnForests ==
    (alg = "dfs" /\ Returned /\ HasNode(start) /\ Acyclic)
        => ExpansionOrder = TruncatedAt(RecursiveDfs(start, << >>), goal)

\* C18's case: dfs has expanded, on a graph without cycle, a node with two
\* neighbours to push and every other node
C18_Witness ==
    /\ alg = "dfs"
    /\ Returned
    /\ Acyclic
    /\ Len(events) = NumNodes
    /\ Len(nbrs[start]) >= 2
    /\ Cardinality(DOMAIN nbrs) = NumNodes

\* C19: every call of depth_limited_dfs (here the calls iterative_deepening_dfs
\* makes, each with an empty visited set, start and goal being nodes of the
\* graph) leaves the shared visited set as it found it, when it returns None
\* and when it returns a path alike.
C19_VisitedRestored ==
    (alg = "iterative_deepening_dfs" /\ HasNode(start) /\ HasNode(goal))
        => visited = {}

\* a priority-based strategy is about to pop the entry frontier[1]
PopsFromHeap ==
    /\ alg \in {"ucs", "greedy_search", "a_star"}
    /\ pc = "loop"
    /\ frontier # << >>

\* the node of a heap entry
EntryNode(e) == IF alg = "a_star" THEN e[3] ELSE e[2]

\* C20 as claimed: in ucs (key g), greedy_search (key h) and a_star (key
\* f = g + h), the entry popped has the lowest key, and of the entries with
\* that key it is the one with the smallest node.
C20_TieBrokenByNode ==
    PopsFromHeap =>
        \A i \in DOMAIN frontier :
            /\ frontier[1][1] <= frontier[i][1]
            /\ frontier[i][1] = frontier[1][1]
                  => EntryNode(frontier[1]) <= EntryNode(frontier[i])

\* C20 as amended: in ucs and greedy_search the entry popped is, of the
\* entries with the lowest key, one with the smallest node; in a_star it is,
\* of the entries with the lowest f, one with the smallest g, and of those
\* with that g one with the smallest node.
C20_TieBrokenByCostThenNode ==
    PopsFromHeap =>
        \A i \in DOMAIN frontier :
            /\ frontier[1][1] <= frontier[i][1]
            /\ frontier[i][1] = frontier[1][1] =>
                  IF alg = "a_star"
                  THEN /\ frontier[1][2] <= frontier[i][2]
                       /\ frontier[i][2] = frontier[1][2]
                             => frontier[1][3] <= frontier[i][3]
                  ELSE frontier[1][2] <= frontier[i][2]

\* C20's case: a_star is about to pop an entry although another entry has
\* the same f, a greater g and a smaller node
C20_Witness ==
    /\ PopsFromHeap
    /\ alg = "a_star"
    /\ \E i \in DOMAIN frontier :
          /\ frontier[i][1] = frontier[1][1]
          /\ frontier[i][2] > frontier[1][2]
          /\ frontier[i][3] < frontier[1][3]

\* p is a prefix of s
IsPrefix(p, s) == Len(p) <= Len(s) /\ SubSeq(s, 1, Len(p)) = p

\* the step pops one entry of the forward frontier, appends to it, and
\* leaves the backward side alone
ForwardTurn ==
    /\ frontier_start # << >>
    /\ IsPrefix(Tail(frontier_start), frontier_start')
    /\ frontier_goal' = frontier_goal
    /\ visited_goal' = visited_goal

\* the step pops one entry of the backward frontier, appends to it, and
\* leaves the forward side alone
BackwardTurn ==
    /\ frontier_goal # << >>
    /\ IsPrefix(Tail(frontier_goal), frontier_goal')
    /\ frontier_start' = frontier_start
    /\ visited_start' = visited_start

\* C21: bidirectional_search (called with nodes of the graph) alternates the
\* sides strictly: every step that reports an event is one turn, which pops
\* exactly one node; the first turn, and every turn after a backward one, is
\* forward, and every turn after a forward one is backward.
C21_StrictAlternation ==
    [][(alg = "bidirectional_search" /\ HasNode(start) /\ HasNode(goal)) =>
         IF events' # events
         THEN /\ Len(events') = Len(events) + 1
              /\ IF Len(events) % 2 = 0 THEN ForwardTurn ELSE BackwardTurn
         ELSE /\ frontier_start' = frontier_start
              /\ frontier_goal' = frontier_goal]_vars

\* C21's case: two forward turns and two backward turns have been made, each
\* side having popped an entry that its first turn appended
C21_Witness ==
    /\ alg = "bidirectional_search"
    /\ HasNode(start) /\ HasNode(goal)
    /\ Len(events) >= 4
    /\ Cardinality(DOMAIN visited_start) >= 3
    /\ Cardinality(DOMAIN visited_goal) >= 3

\* path is a walk of the graph from s to node
IsPathSoFar(path, node, s) ==
    path # << >> /\ path[1] = s /\ Last(path) = node /\ IsWalk(path)

\* what C22 says of the entries of the single frontier and of the forward
\* frontier of bidirectional_search
EntriesOfStartAreSound ==
    /\ alg \in {"dfs", "bfs"} =>
          \A i \in DOMAIN frontier :
              IsPathSoFar(frontier[i][2], frontier[i][1], start)
    /\ alg = "greedy_search" =>
          \A i \in DOMAIN frontier :
              IsPathSoFar(frontier[i][3], frontier[i][2], start)
    /\ alg = "ucs" =>
          \A i \in DOMAIN frontier :
              /\ IsPathSoFar(frontier[i][3], frontier[i][2], start)
              /\ frontier[i][1] = TotalWeight(frontier[i][3])
    /\ alg = "a_star" =>
          \A i \in DOMAIN frontier :
              /\ IsPathSoFar(frontier[i][4], frontier[i][3], start)
              /\ frontier[i][2] = TotalWeight(frontier[i][4])
              /\ frontier[i][1] = frontier[i][2] + heur[frontier[i][3]]
    /\ alg = "bidirectional_search" =>
          \A i \in DOMAIN frontier_start :
              IsPathSoFar(frontier_start[i][2], frontier_start[i][1], start)

\* C22 as claimed: the path-so-far of every frontier entry of every strategy
\* is a walk of the graph from start to the entry's node; in ucs and a_star
\* the entry's g is the total weight of that path, and in a_star its f is
\* g + h(node).
C22_EntriesAreSound ==
    /\ EntriesOfStartAreSound
    /\ alg = "bidirectional_search" =>
          \A i \in DOMAIN frontier_goal :
              IsPathSoFar(frontier_goal[i][2], frontier_goal[i][1], start)

\* C22 as amended: the same, but the path-so-far of an entry of
\* bidirectional_search's backward frontier is a walk from goal to the
\* entry's node.
C22_EntriesAreSoundFromTheirSide ==
    /\ EntriesOfStartAreSound
    /\ alg = "bidirectional_search" =>
          \A i \in DOMAIN frontier_goal :
              IsPathSoFar(frontier_goal[i][2], frontier_goal[i][1], goal)

\* C22's case: a_star's frontier holds an entry with a path of two edges,
\* one of them of weight BigCost, for a node with a heuristic that is not 0
C22_Witness ==
    /\ alg = "a_star"
    /\ \E i \in DOMAIN frontier :
          /\ Len(frontier[i][4]) = 3
          /\ frontier[i][2] = BigCost + 1
          /\ frontier[i][1] = 2 * BigCost + 1

\* the node of entry i of the frontier of dfs, bfs or greedy_search
FrontierNode(i) ==
    IF alg = "greedy_search" THEN frontier[i][2] ELSE frontier[i][1]

\* C23: in dfs, bfs and greedy_search, at the start of every loop iteration
\* the frontier holds at most one entry per node and no entry of a visited
\* node, so that the already-visited test never discards a popped entry.
C23_NoDuplicateEntries ==
    (alg \in {"dfs", "bfs", "greedy_search"} /\ pc = "loop") =>
        /\ \A i, j \in DOMAIN frontier :
              FrontierNode(i) = FrontierNode(j) => i = j
        /\ \A i \in DOMAIN frontier : FrontierNode(i) \notin visited

\* C23's case: greedy_search has expanded a neighbour of start and left out
\* a neighbour of both that start had put into the frontier
C23_Witness ==
    /\ alg = "greedy_search"
    /\ pc = "loop"
    /\ Len(events) >= 2
    /\ \E i \in DOMAIN frontier :
          /\ frontier[i][3] = <<start, frontier[i][2]>>
          /\ IsEdge(events[2].expanded_node, frontier[i][2])

\* no node occurs twice in p
NoRepeatedNode(p) == \A i, j \in DOMAIN p : p[i] = p[j] => i = j

\* the call of depth_limited_dfs that iterative_deepening_dfs makes next
NextDepthLimitedCall == DepthLimitedDfs(start, depth, <<start>>, {})

\* C24: every call of depth_limited_dfs finds, on entry, the visited set to
\* be the set of the nodes of its path without the current node; every path
\* depth_limited_dfs and iterative_deepening_dfs report or return has no
\* repeated node.
C24_VisitedIsCurrentPath ==
    alg = "iterative_deepening_dfs" =>
        /\ \A i \in DOMAIN events : NoRepeatedNode(events[i].path)
        /\ NoRepeatedNode(result)
        /\ (pc = "loop" /\ depth <= MaxDepth) =>
              \A i \in DOMAIN NextDepthLimitedCall.entered :
                  NextDepthLimitedCall.entered[i] =
                      Range(NextDepthLimitedCall.events[i].path)
                          \ {NextDepthLimitedCall.events[i].expanded_node}

\* C24's case: a node was marked, a neighbour was visited below it, and
\* after the backtrack the node has been visited again through a sibling
\* branch
C24_Witness ==
    /\ alg = "iterative_deepening_dfs"
    /\ \E i, k, j \in DOMAIN events :
          /\ i < k /\ k < j
          /\ Len(events[i].path) = 2
          /\ events[k].path = Append(events[i].path, events[k].expanded_node)
          /\ events[j].expanded_node = events[i].expanded_node
          /\ events[j].path = <<start, events[k].expanded_node, events[i].expanded_node>>

\* the nodes of the pairs of a frontier snapshot
SnapshotNodes(snap) == {snap[i][1] : i \in DOMAIN snap}

\* C25: in every event dfs, bfs, ucs, greedy_search, a_star and
\* bidirectional_search report, the nodes of the frontier snapshot are the
\* nodes that have an entry in the reporting frontier and have not been
\* expanded (bidirectional_search being called with start # goal).
C25_SnapshotIsFrontier ==
    [][(/\ LoopBased
        /\ events' # events
        /\ alg = "bidirectional_search" => start # goal) =>
         SnapshotNodes(Last(events').frontier) =
            CASE alg \in {"dfs", "bfs"} ->
                    {frontier'[i][1] : i \in DOMAIN frontier'} \ visited'
              [] alg \in {"ucs", "greedy_search"} ->
                    {frontier'[i][2] : i \in DOMAIN frontier'} \ visited'
              [] alg = "a_star" ->
                    {frontier'[i][3] : i \in DOMAIN frontier'} \ DOMAIN visited_g'
              [] alg = "bidirectional_search" /\ frontier_start' # frontier_start ->
                    {frontier_start'[i][1] : i \in DOMAIN frontier_start'}
                        \ {Last(events').expanded_node}
              [] alg = "bidirectional_search" /\ frontier_start' = frontier_start ->
                    {frontier_goal'[i][1] : i \in DOMAIN frontier_goal'}
                        \ {Last(events').expanded_node}]_vars

\* C26: called with start = goal, a node of the graph, every strategy,
\* bidirectional_search included, returns the one-node path [start]: no step
\* leaves it by an exception or with another result.
C26_StartIsGoal ==
    (start = goal /\ HasNode(start)) =>
        /\ pc # "raised"
        /\ Returned => result = <<start>>

\* C27: iterative_deepening_dfs tries the depth limits 0, 1, 2, ... in
\* increasing order, and when goal is reachable from start it returns at the
\* limit that is the fewest-edge distance from start to goal, with a path of
\* that many edges.
C27_IddfsFewestEdges ==
    /\ []((alg = "iterative_deepening_dfs" /\ Returned /\ HasNode(start))
            => /\ Reachable(start, goal)
               /\ depth = MinEdges(start, goal)
               /\ IsPathFromTo(result, start, goal)
               /\ Edges(result) = MinEdges(start, goal))
    /\ [][(alg = "iterative_deepening_dfs" /\ depth' # depth)
            => (depth' = depth + 1 /\ result' = NoPath)]_vars

\* C27's case: iterative_deepening_dfs has returned a path of three edges at
\* limit 3 although a longer path leads to goal too
C27_Witness ==
    /\ alg = "iterative_deepening_dfs"
    /\ Returned
    /\ depth = 3
    /\ Edges(result) = 3
    /\ \E p \in SimplePaths(<<start>>, goal) : Edges(p) > 3

\* C28: in ucs with edge weights that are not negative, the g-costs of
\* successive events never decrease, and the g-cost of every event is the
\* least total weight of a path from start to the expanded node.
C28_UcsFinalizesLeastCost ==
    alg = "ucs" =>
        /\ \A i, j \in DOMAIN events :
              i < j => events[i].g_cost <= events[j].g_cost
        /\ \A i \in DOMAIN events :
              events[i].g_cost = MinWeight(start, events[i].expanded_node)

\* C28's case: ucs has expanded a neighbour of start by a path of two edges
\* that weighs less than the edge from start
C28_Witness ==
    /\ alg = "ucs"
    /\ \E i \in DOMAIN events :
          /\ Len(events[i].path) = 3
          /\ IsEdge(start, events[i].expanded_node)
          /\ events[i].g_cost < EdgeWeight(start, events[i].expanded_node)
          /\ events[i].g_cost > 0

\* every entry of the deque fr is recorded in the visited map vis with the
\* path it carries
EntriesAreRecorded(fr, vis) ==
    \A i \in DOMAIN fr :
        fr[i][1] \in DOMAIN vis /\ vis[fr[i][1]] = fr[i][2]

\* C29: in bidirectional_search with start # goal, as long as no meeting has
\* been detected the two visited maps have no node in common; the node of
\* every frontier entry is recorded in the visited map of its side with the
\* entry's path; a returned path holds the meeting node exactly once and no
\* node twice.
C29_VisitedMapsMeetOnce ==
    (alg = "bidirectional_search" /\ start # goal) =>
        /\ result = NoPath => DOMAIN visited_start \cap DOMAIN visited_goal = {}
        /\ EntriesAreRecorded(frontier_start, visited_start)
        /\ EntriesAreRecorded(frontier_goal, visited_goal)
        /\ result # NoPath =>
              /\ NoRepeatedNode(result)
              /\ Cardinality({i \in DOMAIN result :
                                 result[i] = Last(events).expanded_node}) = 1

\* C29's case: bidirectional_search has returned a path of three edges or
\* more, joined at a meeting node inside it
C29_Witness ==
    /\ alg = "bidirectional_search"
    /\ start # goal
    /\ Len(result) >= 4
    /\ Last(events).expanded_node \notin {start, goal}

\* C30: GraphTracer.expansion_order grows by one element, the expanded node,
\* with every report call and is never cleared: a new trace() call leaves it
\* as it is, and it ends with the expanded nodes of the current call, after
\* those of all the calls before.
C30_ExpansionOrderAccumulates ==
    /\ [](/\ Len(expansion_order) >= Len(events)
          /\ SubSeq(expansion_order, Len(expansion_order) - Len(events) + 1,
                    Len(expansion_order)) = ExpansionOrder)
    /\ [][/\ IsPrefix(expansion_order, expansion_order')
          /\ traces' # traces => expansion_order' = expansion_order
          /\ traces' = traces =>
                Len(expansion_order') - Len(expansion_order)
                    = Len(events') - Len(events)]_vars

\* C30's case: in the second trace() call two events have been reported,
\* after the events of the first call
C30_Witness ==
    /\ traces = 2
    /\ Len(events) >= 2
    /\ Len(expansion_order) >= Len(events) + 2

====
